---- MODULE Spec2Model ----
(***************************************************************************)
(* A model of the history_stack crate (src/src/lib.rs): the two wrappers   *)
(* UndoStack<T> (history: Vec<T>, current: usize) and HistoryStack<T>      *)
(* (stack: Vec<T>, current: T), with one action per public operation.      *)
(*                                                                         *)
(* Indices are the code's: `current` is 0-based, so the entry it names is  *)
(* At(history, current) = history[current + 1] of the TLA+ sequence.       *)
(***************************************************************************)
EXTENDS Integers, Sequences, FiniteSets, TLC

\* ------------------------------------------------------------------ bounds

\* The values of T are 0..MaxVal.
MaxVal == 1

\* save/push are only taken while the resulting history has at most MaxLen
\* entries (a Vec grows without bound).
MaxLen == 4

\* HistoryStack::push/push_value are only taken while the stack has fewer
\* than MaxStack entries.
MaxStack == 3

T == 0..MaxVal

\* T::default() of the integer type the tests use.
DefaultT == 0

\* "no value": the argument of a call that takes none, the result of a call
\* that returns none (a number that is no value of T).
NoVal == MaxVal + 1

VARIABLES
    history,    \* UndoStack.history
    current,    \* UndoStack.current (0-based index into history)
    panicked,   \* a debug assertion of invariant_ck has failed
    start,      \* the value the UndoStack was constructed with
    last,       \* observation: the most recent UndoStack call and its result
    prev,       \* observation: the call before `last`
    run,        \* observation: a run of save/push calls followed by undo calls
    rt,         \* observation: a save(); undo(); redo() sequence
    stack,      \* HistoryStack.stack
    hs_current, \* HistoryStack.current
    hs_last,    \* observation: the most recent HistoryStack call and its result
    pushed,     \* observation: values passed to push_value / cloned by push
    displaced,  \* observation: values that were current when push_value / push ran
    hs_prev,    \* observation: the call before `hs_last`
    hs_run      \* observation: a run of push_value calls followed by pop calls

us_vars == <<history, current, panicked, start, last, prev, run, rt>>
hs_vars == <<stack, hs_current, hs_last, pushed, displaced, hs_prev, hs_run>>
vars == <<history, current, panicked, start, last, prev, run, rt,
          stack, hs_current, hs_last, pushed, displaced, hs_prev, hs_run>>

\* ------------------------------------------------------------ Vec helpers

\* v[i] for a 0-based index i
At(v, i) == v[i + 1]

\* Vec::truncate(len): keeps the first len elements, no effect if len >= v.len()
truncate(v, len) == IF len < Len(v) THEN SubSeq(v, 1, len) ELSE v

\* Vec::last().unwrap()
last_unwrap(v) == v[Len(v)]

\* Ord for the integer T: a.cmp(&b); partial_cmp is Some of it
T_cmp(a, b) == IF a < b THEN "Less" ELSE IF a = b THEN "Equal" ELSE "Greater"

\* ------------------------------------------------------------- UndoStack

\* The UndoStack as a value
Self == [history |-> history, current |-> current]

UndoStack_new(v) == [history |-> <<v>>, current |-> 0]

UndoStack_default == [history |-> <<DefaultT>>, current |-> 0]

\* the two debug assertions
invariant_ck(s) == Len(s.history) # 0 /\ s.current < Len(s.history)

\* invalidate_future with the truncation left out
invalidate_future_keep(s) == s

invalidate_future(s) ==
    IF s.current + 1 # Len(s.history)
    THEN [s EXCEPT !.history = truncate(s.history, s.current + 1)]
    ELSE s

push_unchecked(s, val) ==
    [history |-> Append(s.history, val), current |-> s.current + 1]

\* save cloning the last entry before the future is dropped
UndoStack_save_stale(s) ==
    push_unchecked(invalidate_future(s), last_unwrap(s.history))

UndoStack_save(s) ==
    LET t == invalidate_future(s)
        val == last_unwrap(t.history)
    IN push_unchecked(t, val)

\* push without invalidate_future
UndoStack_push_keep(s, new_current) == push_unchecked(s, new_current)

UndoStack_push(s, new_current) == push_unchecked(invalidate_future(s), new_current)

\* undo returning the entry the cursor left
UndoStack_undo_old(s) ==
    IF s.current - 1 >= 0
    THEN [self |-> [s EXCEPT !.current = s.current - 1], tag |-> "Ok",
          val |-> At(s.history, s.current)]
    ELSE [self |-> s, tag |-> "Err", val |-> At(s.history, 0)]

\* undo dropping the entries after the new cursor
UndoStack_undo_drop(s) ==
    IF s.current - 1 >= 0
    THEN [self |-> [history |-> truncate(s.history, s.current), current |-> s.current - 1],
          tag |-> "Ok", val |-> At(s.history, s.current - 1)]
    ELSE [self |-> s, tag |-> "Err", val |-> At(s.history, 0)]

\* undo that stops one entry early (current > 1 for current > 0)
UndoStack_undo_early(s) ==
    IF s.current - 1 >= 1
    THEN [self |-> [s EXCEPT !.current = s.current - 1], tag |-> "Ok",
          val |-> At(s.history, s.current - 1)]
    ELSE [self |-> s, tag |-> "Err", val |-> At(s.history, s.current)]

\* Result<&mut T, &mut T>: the tag, the entry the reference names, and the
\* UndoStack after the call
UndoStack_undo(s) ==
    IF s.current - 1 >= 0
    THEN LET n == s.current - 1
         IN [self |-> [s EXCEPT !.current = n], tag |-> "Ok", val |-> At(s.history, n)]
    ELSE [self |-> s, tag |-> "Err", val |-> At(s.history, 0)]

\* redo without the test for the last index
UndoStack_redo_unchecked(s) ==
    [self |-> [s EXCEPT !.current = s.current + 1], tag |-> "Ok",
     val |-> At(s.history, s.current)]

\* redo that stops one entry early
UndoStack_redo_early(s) ==
    IF s.current + 2 >= Len(s.history)
    THEN [self |-> s, tag |-> "Err", val |-> At(s.history, s.current)]
    ELSE [self |-> [s EXCEPT !.current = s.current + 1], tag |-> "Ok",
          val |-> At(s.history, s.current + 1)]

UndoStack_redo(s) ==
    IF s.current + 1 = Len(s.history)
    THEN [self |-> s, tag |-> "Err", val |-> At(s.history, s.current)]
    ELSE [self |-> [s EXCEPT !.current = s.current + 1], tag |-> "Ok",
          val |-> At(s.history, s.current + 1)]

\* How many of n calls of undo in a row, starting from s, return Ok before
\* the first that returns Err (n if none does)
RECURSIVE UndosWithin(_, _)
UndosWithin(s, n) ==
    IF n = 0 THEN 0
    ELSE LET r == UndoStack_undo(s)
         IN IF r.tag = "Ok" THEN 1 + UndosWithin(r.self, n - 1) ELSE 0

\* The same for redo
RECURSIVE RedosWithin(_, _)
RedosWithin(s, n) ==
    IF n = 0 THEN 0
    ELSE LET r == UndoStack_redo(s)
         IN IF r.tag = "Ok" THEN 1 + RedosWithin(r.self, n - 1) ELSE 0

\* The UndoStack after k calls of undo in a row
RECURSIVE UndoTimes(_, _)
UndoTimes(s, k) == IF k = 0 THEN s ELSE UndoTimes(UndoStack_undo(s).self, k - 1)

\* Deref: the current value
UndoStack_deref(s) == At(s.history, s.current)

\* a write that also reaches the entry before the cursor, as if save had
\* shared the entry instead of cloning it
UndoStack_deref_mut_shared(s, v) ==
    [s EXCEPT !.history =
        [i \in 1..Len(s.history) |->
            IF i \in {s.current, s.current + 1} THEN v ELSE s.history[i]]]

\* A write through DerefMut (or through the reference a call returned, which
\* names the same entry): *g = v
UndoStack_deref_mut(s, v) == [s EXCEPT !.history[s.current + 1] = v]

\* inner(): the current value, through Deref
UndoStack_inner(s) == UndoStack_deref(s)

\* PartialEq<T> for UndoStack<T>
UndoStack_eq_T(s, other) == UndoStack_inner(s) = other

\* equality of the whole structure, as #[derive(PartialEq)] would make it
UndoStack_eq_derived(s, other) == s = other

\* PartialEq for UndoStack<T>
UndoStack_eq(s, other) == UndoStack_inner(s) = UndoStack_inner(other)

\* PartialOrd for UndoStack<T>
UndoStack_partial_cmp(s, other) == T_cmp(UndoStack_inner(s), UndoStack_inner(other))

\* PartialOrd<T> for UndoStack<T>
UndoStack_partial_cmp_T(s, other) == T_cmp(UndoStack_inner(s), other)

\* Ord for UndoStack<T>
UndoStack_cmp(s, other) == T_cmp(UndoStack_inner(s), UndoStack_inner(other))

\* ------------------------------------------- observation of UndoStack calls

\* How far the run of undo calls that ends at the present state has moved
\* the cursor back (writes through a reference do not end the run; save,
\* push and redo do).
Backed ==
    IF last.op = "undo" /\ last.tag = "Ok" THEN last.k + 1
    ELSE IF last.op \in {"undo", "deref_mut"} THEN last.k
    ELSE 0

\* The record of a call made in the present state: `pre` is the UndoStack
\* the call found, `k` the cursor positions undone just before it.
CallRecord(op, arg, tag, val) ==
    [op |-> op, arg |-> arg, tag |-> tag, val |-> val, pre |-> Self, k |-> Backed]

NoCall ==
    [op |-> "none", arg |-> NoVal, tag |-> "None", val |-> NoVal,
     pre |-> UndoStack_default, k |-> 0]

\* What `prev` keeps of a call record: of an undo or redo, also the
\* UndoStack the call found.
NoPrev == [op |-> "none", tag |-> "None", k |-> 0, pre |-> UndoStack_default]

PrevOf(c) ==
    [op |-> c.op, tag |-> c.tag, k |-> c.k,
     pre |-> IF c.op \in {"undo", "redo"} THEN c.pre ELSE UndoStack_default]

\* `run` follows the scenario new; (save | push(v); writes to the new
\* current value)^n; undo^m with m <= n + 1.  prevs holds, per save/push,
\* the value that was current when it was called; undone is m.
RunOff == [phase |-> "off", prevs |-> <<>>, undone |-> 0]

RunStep(op) ==
    IF op \in {"save", "push"} /\ run.phase = "build"
    THEN [run EXCEPT !.prevs = Append(run.prevs, UndoStack_deref(Self))]
    ELSE IF op = "deref_mut" /\ run.phase = "build" /\ Len(run.prevs) > 0
    THEN run
    ELSE IF op = "undo" /\ run.phase \in {"build", "unwind"}
                        /\ run.undone < Len(run.prevs) + 1
    THEN [run EXCEPT !.phase = "unwind", !.undone = run.undone + 1]
    ELSE RunOff

\* `rt` follows the sequence save(); writes to the saved entry; undo();
\* redo().  after_save is the UndoStack as save left it, before_undo the
\* UndoStack as the writes left it.
RtIdle ==
    [phase |-> "idle", after_save |-> UndoStack_default,
     before_undo |-> UndoStack_default]

RtStep(op, post) ==
    IF op = "save"
    THEN [phase |-> "saved", after_save |-> post, before_undo |-> post]
    ELSE IF op = "deref_mut" /\ rt.phase = "saved"
    THEN [rt EXCEPT !.before_undo = post]
    ELSE IF op = "undo" /\ rt.phase = "saved"
    THEN [rt EXCEPT !.phase = "undone"]
    ELSE IF op = "redo" /\ rt.phase = "undone"
    THEN [rt EXCEPT !.phase = "redone"]
    ELSE RtIdle

\* The call op(arg) returned (tag, val) and left the UndoStack as post.
Observe(op, arg, tag, val, post) ==
    /\ history' = post.history
    /\ current' = post.current
    /\ prev' = PrevOf(last)
    /\ last' = CallRecord(op, arg, tag, val)
    /\ run' = RunStep(op)
    /\ rt' = RtStep(op, post)
    /\ UNCHANGED <<panicked, start>>

\* A failed debug_assert! panics: the call does nothing else.
Panic ==
    /\ panicked' = TRUE
    /\ UNCHANGED <<history, current, start, last, prev, run, rt>>

\* ----------------------------------------------------- UndoStack actions

InitUndoStack ==
    /\ \E v \in T :
          /\ start = v
          /\ \/ /\ history = UndoStack_new(v).history
                /\ current = UndoStack_new(v).current
                /\ last = [NoCall EXCEPT !.op = "new", !.arg = v]
             \/ /\ v = DefaultT
                /\ history = UndoStack_default.history
                /\ current = UndoStack_default.current
                /\ last = [NoCall EXCEPT !.op = "default"]
    /\ panicked = FALSE
    /\ prev = NoPrev
    /\ run = [phase |-> "build", prevs |-> <<>>, undone |-> 0]
    /\ rt = RtIdle

\* g.save()
Save ==
    /\ ~panicked
    /\ IF invariant_ck(Self)
       THEN /\ current + 2 <= MaxLen
            /\ LET post == UndoStack_save(Self)
               IN Observe("save", NoVal, "Ref", UndoStack_deref(post), post)
       ELSE Panic
    /\ UNCHANGED hs_vars

\* g.push(v)
Push ==
    /\ ~panicked
    /\ IF invariant_ck(Self)
       THEN /\ current + 2 <= MaxLen
            /\ \E v \in T :
                  LET post == UndoStack_push(Self, v)
                  IN Observe("push", v, "Ref", UndoStack_deref(post), post)
       ELSE Panic
    /\ UNCHANGED hs_vars

\* g.undo()
Undo ==
    /\ ~panicked
    /\ IF invariant_ck(Self)
       THEN LET r == UndoStack_undo(Self)
            IN Observe("undo", NoVal, r.tag, r.val, r.self)
       ELSE Panic
    /\ UNCHANGED hs_vars

\* g.redo()
Redo ==
    /\ ~panicked
    /\ IF invariant_ck(Self)
       THEN LET r == UndoStack_redo(Self)
            IN Observe("redo", NoVal, r.tag, r.val, r.self)
       ELSE Panic
    /\ UNCHANGED hs_vars

\* *g = v
DerefMut ==
    /\ ~panicked
    /\ \E v \in T :
          Observe("deref_mut", v, "None", NoVal, UndoStack_deref_mut(Self, v))
    /\ UNCHANGED hs_vars

\* ----------------------------------------------------------- HistoryStack

\* The HistoryStack as a value
HsSelf == [stack |-> stack, current |-> hs_current]

HistoryStack_new(v) == [stack |-> <<>>, current |-> v]

HistoryStack_default == [stack |-> <<>>, current |-> DefaultT]

\* pop taking the oldest entry of the stack
HistoryStack_pop_fifo(s) ==
    IF Len(s.stack) > 0
    THEN [self |-> [stack |-> Tail(s.stack), current |-> Head(s.stack)],
          tag |-> "Some", val |-> s.current]
    ELSE [self |-> s, tag |-> "None", val |-> NoVal]

\* pop returning the value it made current
HistoryStack_pop_new(s) ==
    IF Len(s.stack) > 0
    THEN LET l == s.stack[Len(s.stack)]
         IN [self |-> [stack |-> SubSeq(s.stack, 1, Len(s.stack) - 1), current |-> l],
             tag |-> "Some", val |-> l]
    ELSE [self |-> s, tag |-> "None", val |-> NoVal]

\* pop that leaves the oldest entry on the stack
HistoryStack_pop_early(s) ==
    IF Len(s.stack) > 1
    THEN LET l == s.stack[Len(s.stack)]
         IN [self |-> [stack |-> SubSeq(s.stack, 1, Len(s.stack) - 1), current |-> l],
             tag |-> "Some", val |-> s.current]
    ELSE [self |-> s, tag |-> "None", val |-> NoVal]

\* Option<T>: the tag, the value returned, and the HistoryStack after the call
HistoryStack_pop(s) ==
    IF Len(s.stack) > 0
    THEN LET l == s.stack[Len(s.stack)]
         IN [self |-> [stack |-> SubSeq(s.stack, 1, Len(s.stack) - 1), current |-> l],
             tag |-> "Some", val |-> s.current]
    ELSE [self |-> s, tag |-> "None", val |-> NoVal]

\* push_value storing v and keeping the current value
HistoryStack_push_value_swapped(s, v) ==
    [stack |-> Append(s.stack, v), current |-> s.current]

HistoryStack_push_value(s, v) ==
    [stack |-> Append(s.stack, s.current), current |-> v]

\* push inserting the clone at the bottom of the stack
HistoryStack_push_front(s) ==
    [stack |-> <<s.current>> \o s.stack, current |-> s.current]

HistoryStack_push(s) ==
    [stack |-> Append(s.stack, s.current), current |-> s.current]

\* Deref: the current value
HistoryStack_deref(s) == s.current

\* A write through DerefMut: *g = v
HistoryStack_deref_mut(s, v) == [s EXCEPT !.current = v]

\* PartialEq<T> for HistoryStack<T>
HistoryStack_eq_T(s, other) == s.current = other

\* PartialEq for HistoryStack<T>
HistoryStack_eq(s, other) == s.current = other.current

\* PartialOrd for HistoryStack<T>
HistoryStack_partial_cmp(s, other) == T_cmp(s.current, other.current)

\* PartialOrd<T> for HistoryStack<T>
HistoryStack_partial_cmp_T(s, other) == T_cmp(s.current, other)

\* Ord for HistoryStack<T>
HistoryStack_cmp(s, other) == T_cmp(s.current, other.current)

\* ---------------------------------------- observation of HistoryStack calls

\* The record of a call made in the present state: `pre` is the HistoryStack
\* the call found.
HsCallRecord(op, arg, tag, val) ==
    [op |-> op, arg |-> arg, tag |-> tag, val |-> val, pre |-> HsSelf,
     pushed |-> pushed, displaced |-> displaced]

\* What `hs_prev` keeps of a call record
HsNoPrev == [op |-> "none", arg |-> NoVal, pre |-> HistoryStack_default]

\* `hs_run` follows the scenario new(v0); push_value(v1); ...; push_value(vn);
\* pop^m with m <= n + 1.  vals is <<v0, v1, ..., vn>>, popped is m.
HsRunOff == [phase |-> "off", vals |-> <<>>, popped |-> 0]

HsRunStart(v0) == [phase |-> "build", vals |-> <<v0>>, popped |-> 0]

HsRunStep(op, arg) ==
    IF op = "push_value" /\ hs_run.phase = "build"
    THEN [hs_run EXCEPT !.vals = Append(hs_run.vals, arg)]
    ELSE IF op = "pop" /\ hs_run.phase \in {"build", "unwind"}
                       /\ hs_run.popped < Len(hs_run.vals)
    THEN [hs_run EXCEPT !.phase = "unwind", !.popped = hs_run.popped + 1]
    ELSE HsRunOff

\* The call op(arg) returned (tag, val) and left the HistoryStack as post.
\* pushed and displaced pair every push_value(v) / push() not yet popped with
\* the value it was given (v, or the clone) and with the value that was
\* current when it was called.
HsObserve(op, arg, tag, val, post) ==
    /\ stack' = post.stack
    /\ hs_current' = post.current
    /\ hs_last' = HsCallRecord(op, arg, tag, val)
    /\ pushed' =
          IF op = "push_value" THEN Append(pushed, arg)
          ELSE IF op = "push" THEN Append(pushed, hs_current)
          ELSE IF op = "pop" /\ tag = "Some" THEN SubSeq(pushed, 1, Len(pushed) - 1)
          ELSE pushed
    /\ displaced' =
          IF op \in {"push_value", "push"} THEN Append(displaced, hs_current)
          ELSE IF op = "pop" /\ tag = "Some"
          THEN SubSeq(displaced, 1, Len(displaced) - 1)
          ELSE displaced
    /\ hs_prev' = [op |-> hs_last.op, arg |-> hs_last.arg, pre |-> hs_last.pre]
    /\ hs_run' = HsRunStep(op, arg)

\* --------------------------------------------------- HistoryStack actions

InitHistoryStack ==
    /\ \E v \in T :
          \/ /\ stack = HistoryStack_new(v).stack
             /\ hs_current = HistoryStack_new(v).current
             /\ hs_last = [op |-> "new", arg |-> v, tag |-> "None", val |-> NoVal,
                           pre |-> HistoryStack_default, pushed |-> <<>>,
                           displaced |-> <<>>]
          \/ /\ v = DefaultT
             /\ stack = HistoryStack_default.stack
             /\ hs_current = HistoryStack_default.current
             /\ hs_last = [op |-> "default", arg |-> NoVal, tag |-> "None",
                           val |-> NoVal, pre |-> HistoryStack_default,
                           pushed |-> <<>>, displaced |-> <<>>]
    /\ pushed = <<>>
    /\ displaced = <<>>
    /\ hs_prev = HsNoPrev
    /\ hs_run = HsRunStart(hs_current)

\* g.pop()
HsPop ==
    /\ LET r == HistoryStack_pop(HsSelf)
       IN HsObserve("pop", NoVal, r.tag, r.val, r.self)
    /\ UNCHANGED us_vars

\* g.push_value(v)
HsPushValue ==
    /\ Len(stack) < MaxStack
    /\ \E v \in T :
          HsObserve("push_value", v, "None", NoVal, HistoryStack_push_value(HsSelf, v))
    /\ UNCHANGED us_vars

\* g.push()
HsPush ==
    /\ Len(stack) < MaxStack
    /\ HsObserve("push", NoVal, "None", NoVal, HistoryStack_push(HsSelf))
    /\ UNCHANGED us_vars

\* *g = v
HsDerefMut ==
    /\ \E v \in T :
          HsObserve("deref_mut", v, "None", NoVal, HistoryStack_deref_mut(HsSelf, v))
    /\ UNCHANGED us_vars

\* --------------------------------------------------------- specifications

\* An UndoStack under every sequence of calls (beside it, an untouched
\* HistoryStack::default()).
Init ==
    /\ InitUndoStack
    /\ stack = HistoryStack_default.stack
    /\ hs_current = HistoryStack_default.current
    /\ hs_last = [op |-> "default", arg |-> NoVal, tag |-> "None", val |-> NoVal,
                  pre |-> HistoryStack_default, pushed |-> <<>>, displaced |-> <<>>]
    /\ pushed = <<>>
    /\ displaced = <<>>
    /\ hs_prev = HsNoPrev
    /\ hs_run = HsRunStart(DefaultT)

Next == Save \/ Push \/ Undo \/ Redo \/ DerefMut

Spec == Init /\ [][Next]_vars

\* A HistoryStack under every sequence of calls (beside it, an untouched
\* UndoStack::default()).
HsInit ==
    /\ InitHistoryStack
    /\ history = UndoStack_default.history
    /\ current = UndoStack_default.current
    /\ panicked = FALSE
    /\ start = DefaultT
    /\ last = [NoCall EXCEPT !.op = "default"]
    /\ prev = NoPrev
    /\ run = [phase |-> "build", prevs |-> <<>>, undone |-> 0]
    /\ rt = RtIdle

HsNext == HsPop \/ HsPushValue \/ HsPush \/ HsDerefMut

HsSpec == HsInit /\ [][HsNext]_vars

\* One wrapper of either type under every sequence of calls: the one that is
\* called first is the one in use, the other stays as default() made it.
EitherInit == Init \/ HsInit

EitherNext ==
    \/ /\ hs_last.op = "default"
       /\ Next
    \/ /\ last.op = "default"
       /\ HsNext

EitherSpec == EitherInit /\ [][EitherNext]_vars

\* ------------------------------------------------------ claims, UndoStack

\* C1: in every state reachable from new(start) or default() by save, push,
\* undo, redo and writes to the current value, history is non-empty and
\* 0 <= current < len(history); no debug assertion of invariant_ck has failed.
C1_HistoryNonEmptyCursorValid ==
    /\ ~panicked
    /\ Len(history) >= 1
    /\ 0 <= current /\ current < Len(history)
    /\ invariant_ck(Self)

\* C1 witness: the cursor is at the floor after a failed undo, with the
\* history full, i.e. after saves, pushes and undos.
C1_Witness ==
    /\ last.op = "undo" /\ last.tag = "Err"
    /\ Len(history) = MaxLen /\ current = 0

\* C2: once undo has moved the cursor back by k >= 1, a save or push drops
\* every forward entry: right after it len(history) = old cursor + 2 and the
\* cursor is the last index; a redo that follows returns Err.
C2_DivergentWriteTruncates ==
    /\ (last.op \in {"save", "push"} /\ last.k >= 1) =>
          /\ Len(last.pre.history) - (last.pre.current + 1) >= last.k
          /\ Len(history) = last.pre.current + 2
          /\ current = Len(history) - 1
    /\ (last.op = "redo" /\ prev.op \in {"save", "push"} /\ prev.k >= 1) =>
          /\ last.tag = "Err"
          /\ current = Len(history) - 1

\* C2 witness: two undos, then a save, then a redo that failed.
C2_Witness ==
    /\ last.op = "redo" /\ last.tag = "Err"
    /\ prev.op = "save" /\ prev.k >= 2

\* C3: save() on history h, cursor c leaves history h[0..c] ++ [h[c]] and
\* cursor c + 1, and returns the appended entry.
C3_SaveClonesCurrent ==
    last.op = "save" =>
        LET h == last.pre.history
            c == last.pre.current
        IN /\ history = SubSeq(h, 1, c + 1) \o <<At(h, c)>>
           /\ current = c + 1
           /\ last.val = At(h, c)

\* C3 witness: a save made while a forward entry differed from the current
\* value.
C3_Witness ==
    /\ last.op = "save"
    /\ last.pre.current + 1 < Len(last.pre.history)
    /\ last_unwrap(last.pre.history) # At(last.pre.history, last.pre.current)

\* C4: push(v) on history h, cursor c leaves history h[0..c] ++ [v] and
\* cursor c + 1, so the current value is v; but for the appended value this
\* is what save() makes of the same UndoStack.
C4_PushAppendsValue ==
    last.op = "push" =>
        LET h == last.pre.history
            c == last.pre.current
            sv == UndoStack_save(last.pre)
        IN /\ history = SubSeq(h, 1, c + 1) \o <<last.arg>>
           /\ current = c + 1
           /\ UndoStack_deref(Self) = last.arg
           /\ last.val = last.arg
           /\ current = sv.current
           /\ Len(history) = Len(sv.history)
           /\ SubSeq(history, 1, current) = SubSeq(sv.history, 1, sv.current)

\* C4 witness: a push, made with forward entries present, of a value other
\* than the current one.
C4_Witness ==
    /\ last.op = "push"
    /\ last.pre.current + 1 < Len(last.pre.history)
    /\ last.arg # At(last.pre.history, last.pre.current)

\* C5: undo with cursor > 0 decrements the cursor by one and returns Ok with
\* the entry at the new cursor; with cursor = 0 it returns Err with the entry
\* at index 0 and leaves cursor and history as they were.
C5_UndoResult ==
    last.op = "undo" =>
        IF last.pre.current > 0
        THEN /\ last.tag = "Ok"
             /\ current = last.pre.current - 1
             /\ last.val = At(history, current)
        ELSE /\ last.tag = "Err"
             /\ last.val = At(last.pre.history, 0)
             /\ current = last.pre.current
             /\ history = last.pre.history

\* C5 witness: an undo that succeeded, to an entry unlike the one it left,
\* and then an undo that failed.
C5_Witness ==
    /\ last.op = "undo" /\ last.tag = "Err"
    /\ prev.op = "undo" /\ prev.tag = "Ok"
    /\ Len(history) >= 2 /\ At(history, 0) # At(history, 1)

\* C6: redo returns Ok exactly when cursor + 1 < len(history), and then
\* increments the cursor by one and carries the entry at the new cursor;
\* otherwise it returns Err with the current entry and leaves cursor and
\* history as they were.
C6_RedoResult ==
    last.op = "redo" =>
        /\ last.tag \in {"Ok", "Err"}
        /\ last.tag = "Ok" <=> last.pre.current + 1 < Len(last.pre.history)
        /\ last.tag = "Ok" =>
              /\ current = last.pre.current + 1
              /\ last.val = At(history, current)
        /\ last.tag = "Err" =>
              /\ last.val = At(last.pre.history, last.pre.current)
              /\ current = last.pre.current
              /\ history = last.pre.history

\* C6 witness: a redo that succeeded, to the last entry, and then a redo
\* that failed.
C6_Witness ==
    /\ last.op = "redo" /\ last.tag = "Err"
    /\ prev.op = "redo" /\ prev.tag = "Ok"
    /\ Len(history) >= 2
    /\ At(history, current) # At(history, current - 1)

\* C7: undo and redo, succeeding or failing, leave the history sequence as
\* it was: the same length and the same entries.
C7_UndoRedoKeepHistory ==
    last.op \in {"undo", "redo"} =>
        /\ Len(history) = Len(last.pre.history)
        /\ \A i \in 1..Len(history) : history[i] = last.pre.history[i]

\* C7 witness: a successful undo right after a successful redo, with entries
\* on both sides of the cursor.
C7_Witness ==
    /\ last.op = "undo" /\ last.tag = "Ok"
    /\ prev.op = "redo" /\ prev.tag = "Ok"
    /\ current >= 1 /\ current + 1 < Len(history)

\* C8: after new and n save/push calls (each possibly followed by writes to
\* the new current value), the m-th undo, m <= n, returns Ok with the value
\* that was current when the (n - m + 1)-th save/push was called, and the
\* (n + 1)-th undo returns Err with the initial value.
C8_UndoUnwindsSaves ==
    (run.phase = "unwind" /\ last.op = "undo") =>
        LET n == Len(run.prevs)
            m == run.undone
        IN IF m <= n
           THEN /\ last.tag = "Ok"
                /\ last.val = run.prevs[n - m + 1]
           ELSE /\ last.tag = "Err"
                /\ last.val = start
                /\ run.prevs # <<>> => last.val = run.prevs[1]

\* C8 witness: the failing undo after two or more saves/pushes of differing
\* values were all undone.
C8_Witness ==
    /\ run.phase = "unwind" /\ last.op = "undo"
    /\ Len(run.prevs) >= 2
    /\ run.undone = Len(run.prevs) + 1
    /\ run.prevs[1] # run.prevs[2]

\* C9 as stated: after save(); writes to the saved entry; undo(); redo() the
\* UndoStack is exactly as save() left it, and undo and redo returned Ok.
C9_RoundTripToAfterSave ==
    rt.phase = "redone" =>
        /\ prev.op = "undo" /\ prev.tag = "Ok"
        /\ last.op = "redo" /\ last.tag = "Ok"
        /\ Self = rt.after_save

\* C9 amended: after save(); writes to the saved entry; undo(); redo() the
\* UndoStack has exactly the history, current value and cursor it had when
\* undo was called (as save() and the writes left it), and undo and redo
\* returned Ok.
C9_RoundTripToBeforeUndo ==
    rt.phase = "redone" =>
        /\ prev.op = "undo" /\ prev.tag = "Ok"
        /\ last.op = "redo" /\ last.tag = "Ok"
        /\ history = rt.before_undo.history
        /\ current = rt.before_undo.current
        /\ UndoStack_deref(Self) = UndoStack_deref(rt.before_undo)
        /\ last.val = UndoStack_deref(rt.before_undo)

\* C9 witness: the sequence completed with the saved entry written to
\* between save and undo.
C9_Witness ==
    /\ rt.phase = "redone"
    /\ rt.before_undo # rt.after_save

\* --------------------------------------------------- claims, HistoryStack

\* C10 as stated: after a successful pop the current value is the value given
\* to the latest push_value, or cloned by the latest push, not yet popped.
C10_PopRestoresPushedValue ==
    (hs_last.op = "pop" /\ hs_last.tag = "Some") =>
        /\ hs_last.pushed # <<>>
        /\ hs_current = last_unwrap(hs_last.pushed)

\* C10 amended: after a successful pop the current value is the value that
\* was current when the latest push_value or push not yet popped was called
\* (the value push cloned, the value push_value(v) replaced by v); the
\* value pop returns is the one that was current when pop was called.
C10_PopRestoresDisplacedValue ==
    (hs_last.op = "pop" /\ hs_last.tag = "Some") =>
        /\ hs_last.displaced # <<>>
        /\ hs_current = last_unwrap(hs_last.displaced)
        /\ hs_last.val = hs_last.pre.current

\* C10 witness: a successful pop, two or more calls deep, of an entry that
\* push_value stored with a different value.
C10_Witness ==
    /\ hs_last.op = "pop" /\ hs_last.tag = "Some"
    /\ Len(hs_last.displaced) >= 2
    /\ hs_last.displaced[1] # last_unwrap(hs_last.displaced)
    /\ last_unwrap(hs_last.displaced) # last_unwrap(hs_last.pushed)

\* C11: pop on a non-empty stack removes exactly the last element of the
\* stack, makes it the current value and returns the value that was current;
\* the other elements keep their order and values.
C11_PopTakesLast ==
    (hs_last.op = "pop" /\ Len(hs_last.pre.stack) > 0) =>
        LET st == hs_last.pre.stack
        IN /\ hs_last.tag = "Some"
           /\ hs_last.val = hs_last.pre.current
           /\ hs_current = st[Len(st)]
           /\ Len(stack) = Len(st) - 1
           /\ \A i \in 1..Len(stack) : stack[i] = st[i]

\* C11 witness: a pop from a stack of two or more differing entries, whose
\* last differs from the value that was current.
C11_Witness ==
    /\ hs_last.op = "pop"
    /\ Len(hs_last.pre.stack) >= 2
    /\ hs_last.pre.stack[1] # last_unwrap(hs_last.pre.stack)
    /\ last_unwrap(hs_last.pre.stack) # hs_last.pre.current

\* C12: pop on an empty stack returns None and leaves the current value and
\* the (empty) stack as they were; pop returns None only on an empty stack.
C12_PopEmptyIsNoOp ==
    hs_last.op = "pop" =>
        /\ hs_last.tag \in {"Some", "None"}
        /\ hs_last.pre.stack = <<>> =>
              /\ hs_last.tag = "None"
              /\ hs_last.val = NoVal
              /\ hs_current = hs_last.pre.current
              /\ stack = <<>>
        /\ hs_last.tag = "None" => hs_last.pre.stack = <<>>

\* C12 witness: a pop that found the stack empty right after a pop that
\* emptied it.
C12_Witness ==
    /\ hs_last.op = "pop" /\ hs_last.tag = "None"
    /\ hs_prev.op = "pop" /\ Len(hs_prev.pre.stack) = 1

\* C13: after push_value(v) the current value is v and the stack is the old
\* stack with the old current value appended; a pop right after it returns v
\* and restores the current value and the stack push_value found.
C13_PushValuePopRoundTrip ==
    /\ hs_last.op = "push_value" =>
          /\ hs_current = hs_last.arg
          /\ stack = Append(hs_last.pre.stack, hs_last.pre.current)
    /\ (hs_last.op = "pop" /\ hs_prev.op = "push_value") =>
          /\ hs_last.tag = "Some"
          /\ hs_last.val = hs_prev.arg
          /\ hs_current = hs_prev.pre.current
          /\ stack = hs_prev.pre.stack

\* C13 witness: a pop right after a push_value, on a non-empty stack, of a
\* value other than the current one.
C13_Witness ==
    /\ hs_last.op = "pop" /\ hs_prev.op = "push_value"
    /\ hs_prev.pre.stack # <<>>
    /\ hs_prev.arg # hs_prev.pre.current

\* C14: push() leaves the current value as it was and appends one element,
\* equal to the current value, at the end of the stack; the elements already
\* on the stack are unchanged.
C14_PushClonesCurrent ==
    hs_last.op = "push" =>
        LET st == hs_last.pre.stack
        IN /\ hs_current = hs_last.pre.current
           /\ Len(stack) = Len(st) + 1
           /\ stack[Len(stack)] = hs_current
           /\ \A i \in 1..Len(st) : stack[i] = st[i]

\* C14 witness: a push onto a non-empty stack whose entries differ from the
\* current value.
C14_Witness ==
    /\ hs_last.op = "push"
    /\ hs_last.pre.stack # <<>>
    /\ \A i \in 1..Len(hs_last.pre.stack) : hs_last.pre.stack[i] # hs_current

\* C17: after new(v0) and push_value(v1), ..., push_value(vn), the m-th pop,
\* m <= n, returns Some(v(n-m+1)) and leaves v(n-m) current; the (n+1)-th pop
\* returns None with v0 still current.
C17_PopReversesPushValue ==
    (hs_run.phase = "unwind" /\ hs_last.op = "pop") =>
        LET n == Len(hs_run.vals) - 1
            m == hs_run.popped
        IN IF m <= n
           THEN /\ hs_last.tag = "Some"
                /\ hs_last.val = hs_run.vals[n - m + 2]
                /\ hs_current = hs_run.vals[n - m + 1]
           ELSE /\ hs_last.tag = "None"
                /\ hs_current = hs_run.vals[1]

\* C17 witness: the pop that returns None after three push_value calls of
\* values that are not all equal were popped.
C17_Witness ==
    /\ hs_run.phase = "unwind" /\ hs_last.op = "pop"
    /\ Len(hs_run.vals) >= 4
    /\ hs_run.popped = Len(hs_run.vals)
    /\ hs_run.vals[2] # hs_run.vals[3]
    /\ hs_run.vals[1] # hs_run.vals[2]

\* ------------------------------------------------ claims, UndoStack (2)

\* C16: right after save the new current value equals the old one; a write
\* to the current value changes history[cursor] and no other entry, so the
\* undo that follows save and the writes returns Ok with the value that was
\* current before save.
C16_SaveIsIndependentCopy ==
    /\ last.op = "save" =>
          /\ UndoStack_deref(Self) = UndoStack_deref(last.pre)
          /\ last.val = UndoStack_deref(last.pre)
    /\ last.op = "deref_mut" =>
          /\ current = last.pre.current
          /\ Len(history) = Len(last.pre.history)
          /\ At(history, current) = last.arg
          /\ \A i \in 0..(Len(history) - 1) :
                i # current => At(history, i) = At(last.pre.history, i)
    /\ rt.phase = "saved" =>
          At(history, current - 1) = At(rt.after_save.history, current - 1)
    /\ rt.phase = "undone" =>
          /\ last.op = "undo" /\ last.tag = "Ok"
          /\ last.val = UndoStack_deref(rt.after_save)
          /\ UndoStack_deref(Self) = UndoStack_deref(rt.after_save)

\* C16 witness: the undo after a save whose entry was then given another
\* value.
C16_Witness ==
    /\ rt.phase = "undone"
    /\ UndoStack_deref(rt.before_undo) # UndoStack_deref(rt.after_save)

\* C18: with cursor > 0, undo then redo both return Ok and leave history
\* and cursor as undo found them; with cursor + 1 < len(history), redo then
\* undo both return Ok and leave history and cursor as redo found them.
C18_UndoRedoInverse ==
    /\ (last.op = "redo" /\ prev.op = "undo" /\ prev.pre.current > 0) =>
          /\ prev.tag = "Ok" /\ last.tag = "Ok"
          /\ history = prev.pre.history
          /\ current = prev.pre.current
    /\ (last.op = "undo" /\ prev.op = "redo"
                         /\ prev.pre.current + 1 < Len(prev.pre.history)) =>
          /\ prev.tag = "Ok" /\ last.tag = "Ok"
          /\ history = prev.pre.history
          /\ current = prev.pre.current

\* C18 witness: redo then undo, from a cursor with entries on both sides.
C18_Witness ==
    /\ last.op = "undo" /\ prev.op = "redo"
    /\ prev.pre.current >= 1
    /\ prev.pre.current + 1 < Len(prev.pre.history)

\* C19: from a state with cursor c and history length L, calls of undo in a
\* row return Ok exactly c times before the first Err and calls of redo
\* exactly L - 1 - c times, so either reaches an Err within L calls; after k
\* successful undos k more redos succeed than before.
C19_UndoRedoCounts ==
    LET L == Len(history)
        c == current
    IN /\ UndosWithin(Self, L + 1) = c
       /\ RedosWithin(Self, L + 1) = L - 1 - c
       /\ \A k \in 1..c :
             RedosWithin(UndoTimes(Self, k), L + 1) = RedosWithin(Self, L + 1) + k
       /\ (last.op = "undo" /\ last.tag = "Err") => UndosWithin(last.pre, L + 1) = 0
       /\ (last.op = "undo" /\ last.tag = "Ok") =>
             /\ UndosWithin(last.pre, L + 1) = UndosWithin(Self, L + 1) + 1
             /\ RedosWithin(Self, L + 1) = RedosWithin(last.pre, L + 1) + 1
       /\ (last.op = "redo" /\ last.tag = "Err") => RedosWithin(last.pre, L + 1) = 0
       /\ (last.op = "redo" /\ last.tag = "Ok") =>
             RedosWithin(last.pre, L + 1) = RedosWithin(Self, L + 1) + 1

\* C19 witness: after two undos in a row, with an undo and a redo still to
\* succeed.
C19_Witness ==
    /\ last.op = "undo" /\ last.tag = "Ok" /\ Backed >= 2
    /\ current >= 1
    /\ Len(history) = MaxLen

\* C20: invalidate_future leaves the history cut to length cursor + 1, as
\* an unconditional truncate(cursor + 1) does: entries 0..cursor and the
\* cursor are unchanged, and with the cursor at the last index the UndoStack
\* is left as it was.  Checked of the present UndoStack and of every
\* UndoStack a save or push found.
C20_InvalidateFutureIsTruncate ==
    \A s \in {Self} \cup (IF last.op \in {"save", "push"} THEN {last.pre} ELSE {}) :
        LET t == invalidate_future(s)
        IN /\ t = [s EXCEPT !.history = truncate(s.history, s.current + 1)]
           /\ Len(t.history) = s.current + 1
           /\ t.current = s.current
           /\ \A i \in 0..s.current : At(t.history, i) = At(s.history, i)
           /\ s.current + 1 = Len(s.history) => t = s

\* C20 witness: a save or push that found two forward entries to drop.
C20_Witness ==
    /\ last.op \in {"save", "push"}
    /\ Len(last.pre.history) >= last.pre.current + 3
    /\ Len(history) = last.pre.current + 2

\* --------------------------------------------- claims, both wrappers

\* The wrappers the present UndoStack is compared with: those found by
\* earlier calls (as clones taken then) and fresh ones.
UsOthers ==
    {last.pre, prev.pre, rt.after_save, rt.before_undo} \cup {UndoStack_new(v) : v \in T}

\* The same for the present HistoryStack
HsOthers == {hs_last.pre, hs_prev.pre} \cup {HistoryStack_new(v) : v \in T}

\* C15: a wrapper equals a bare value v exactly when its current value is v,
\* and equals another wrapper exactly when their current values are equal,
\* whatever their stacks, histories and cursors; ordering is likewise that of
\* the current values.
C15_Transparency ==
    /\ \A v \in T :
          /\ UndoStack_eq_T(Self, v) <=> (At(history, current) = v)
          /\ UndoStack_partial_cmp_T(Self, v) = T_cmp(At(history, current), v)
          /\ HistoryStack_eq_T(HsSelf, v) <=> (hs_current = v)
          /\ HistoryStack_partial_cmp_T(HsSelf, v) = T_cmp(hs_current, v)
    /\ \A o \in UsOthers :
          /\ UndoStack_eq(Self, o) <=> (At(history, current) = At(o.history, o.current))
          /\ UndoStack_partial_cmp(Self, o)
                = T_cmp(At(history, current), At(o.history, o.current))
          /\ UndoStack_cmp(Self, o)
                = T_cmp(At(history, current), At(o.history, o.current))
    /\ \A o \in HsOthers :
          /\ HistoryStack_eq(HsSelf, o) <=> (hs_current = o.current)
          /\ HistoryStack_partial_cmp(HsSelf, o) = T_cmp(hs_current, o.current)
          /\ HistoryStack_cmp(HsSelf, o) = T_cmp(hs_current, o.current)

\* C15 witness: after calls, an UndoStack that equals one with another
\* history and another cursor, and is less than a bare value.
C15_Witness ==
    /\ last.op = "undo" /\ last.tag = "Ok"
    /\ \E o \in UsOthers :
          /\ o.current # current
          /\ o.history # history
          /\ UndoStack_eq(Self, o)
    /\ \E v \in T : UndoStack_partial_cmp_T(Self, v) = "Less"

====
